---- MODULE Spec2Model ----
(***************************************************************************)
(* Model of gotoalert/database.py: the functions that reconcile a new      *)
(* alert with the GOTO observation database (remove_previous_events) and   *)
(* write its observation plan (add_to_database, with get_mpointing_info,   *)
(* get_user, get_grid and get_grid_tiles).                                 *)
(*                                                                         *)
(* Conventions.  Table rows are sequences, a row's id is its index; a null *)
(* reference (Python None) is the id 0 and a null number is NoneVal.       *)
(* Probabilities and contour values are integer percentages (0.9 is 90),   *)
(* exposure times are whole seconds.  A tile name is the tile's number in  *)
(* the grid, and the string '<a>_<b>' is the pair <<a, b>>.                *)
(***************************************************************************)
EXTENDS Integers, Sequences, FiniteSets, TLC

\* The columns of the tables, the attributes of the objects and the keys of
\* the mappings of the model, numbered; every record below lists its fields
\* in the order of these numbers.
Fields ==
    [op |-> 1, fault |-> 2, db |-> 3, name |-> 4, ivorn |-> 5,
     source |-> 6, event_type |-> 7, type |-> 8, coord |-> 9,
     strategy |-> 10, skymap |-> 11, grid |-> 12, full_table |-> 13,
     masked_table |-> 14, tile_table |-> 15, object_name |-> 16, ra |-> 17,
     dec |-> 18, status |-> 19, user |-> 20, mpointing |-> 21,
     event |-> 22, raised |-> 23, weight |-> 24, survey |-> 25,
     grid_tile |-> 26, survey_tile |-> 27, mp_data |-> 28, expsets |-> 29,
     events |-> 30, mpointings |-> 31, pointings |-> 32,
     exposure_sets |-> 33, surveys |-> 34, survey_tiles |-> 35,
     users |-> 36, grids |-> 37, exposure_sets_dict |-> 38, too |-> 39,
     min_time |-> 40, valid_time |-> 41, start_time |-> 42,
     stop_time |-> 43, rank |-> 44, start_rank |-> 45, cadence_dict |-> 46,
     constraints_dict |-> 47, on_grid |-> 48, tile_limit |-> 49,
     prob_limit |-> 50, num_exp |-> 51, exptime |-> 52, filt |-> 53,
     binning |-> 54, imgtype |-> 55, num_todo |-> 56, wait_time |-> 57,
     max_sunalt |-> 58, min_alt |-> 59, min_moonsep |-> 60,
     max_moon |-> 61, tilename |-> 62, prob |-> 63, contours |-> 64,
     profile |-> 65, session |-> 66, pc |-> 67,
     failAt |-> 68, k |-> 69, db_events |-> 70]

VARIABLES
    db,      \* the committed content of the observation database
    pre,     \* the committed content before the last call
    call,    \* the last call: its name, the injected fault, what it raised
             \* and, of get_mpointing_info, what it returned; of
             \* remove_previous_events, where it is (in the loop over the
             \* previous events, or done), the previous events it has
             \* queried, the one it is at and the one that met the fault
    event,   \* the Event object handed to the last call, with the
             \* attributes the call stored on it
    last_session,
             \* the content of the database session of the last call when the
             \* call ended: the committed rows and the rows the call had
             \* added or changed, before the commit or the rollback
    callers  \* the callers that ingest a notice concurrently: where each
             \* of them is and what its calls raised

vars == <<db, pre, call, event, last_session, callers>>

----------------------------------------------------------------------------
(* Bounds of the model *)

MaxPrior == 2       \* Event rows in the database when reconciliation starts
MaxEvents == 2      \* cap on the Event rows that add_to_database writes
MaxGrids == 2       \* Grid rows defined in the database
NumTiles == 3       \* tiles of a grid
MaxExpSets == 2     \* entries of the exposure_sets_dict of a strategy
NumCallers == 2     \* callers that ingest the same notice concurrently

NoneVal == -1       \* Python None in a numeric column

Names == {"GW1", "GRB1"}
Sources == {"LVC", "SWIFT"}
EventTypes == {"GW_CBC", "GW_RETRACTION"}

MpointingStatuses == {"unscheduled", "scheduled", "completed", "expired", "deleted"}
PointingStatuses == {"pending", "running", "completed", "aborted", "interrupted",
                     "expired", "deleted"}

----------------------------------------------------------------------------
(* The database *)

EmptyDb ==
    [events |-> <<>>, mpointings |-> <<>>, pointings |-> <<>>,
     exposure_sets |-> <<>>, surveys |-> <<>>, survey_tiles |-> <<>>,
     users |-> {}, grids |-> 0]

----------------------------------------------------------------------------
(* remove_previous_events *)

\* query = session.query(db.Event).filter(db.Event.name == event.name,
\*                                        db.Event.source == event.source)
\* db_events = query.all(): the ids of the first n Event rows that match
RECURSIVE PreviousEventsByName(_, _, _)
PreviousEventsByName(d, ev, n) ==
    IF n = 0 THEN <<>>
    ELSE IF d.events[n].name = ev.name
         THEN Append(PreviousEventsByName(d, ev, n - 1), n)
         ELSE PreviousEventsByName(d, ev, n - 1)

RECURSIVE PreviousEvents(_, _, _)
PreviousEvents(d, ev, n) ==
    IF n = 0 THEN <<>>
    ELSE IF d.events[n].name = ev.name /\ d.events[n].source = ev.source
         THEN Append(PreviousEvents(d, ev, n - 1), n)
         ELSE PreviousEvents(d, ev, n - 1)

\* lines 46-53: the Mpointings of db_event that are scheduled or unscheduled
\* get the status 'deleted'
DeleteEventMpointings(d, id) ==
    [d EXCEPT
       !.mpointings = [j \in DOMAIN d.mpointings |->
            IF d.mpointings[j].event = id
               /\ d.mpointings[j].status \in {"scheduled", "unscheduled"}
            THEN [d.mpointings[j] EXCEPT !.status = "deleted"]
            ELSE d.mpointings[j]]]

DeleteEventPointingsScheduledOnly(d, id) ==
    [d EXCEPT
       !.mpointings = [j \in DOMAIN d.mpointings |->
            IF d.mpointings[j].event = id /\ d.mpointings[j].status = "scheduled"
            THEN [d.mpointings[j] EXCEPT !.status = "deleted"]
            ELSE d.mpointings[j]],
       !.pointings = [j \in DOMAIN d.pointings |->
            IF d.pointings[j].event = id /\ d.pointings[j].status = "pending"
            THEN [d.pointings[j] EXCEPT !.status = "deleted"]
            ELSE d.pointings[j]]]

\* the loop body if it also gave the deleted records back to the queue
DeleteEventPointingsRestoring(d, id) ==
    [d EXCEPT
       !.mpointings = [j \in DOMAIN d.mpointings |->
            IF d.mpointings[j].event = id
               /\ d.mpointings[j].status \in {"scheduled", "unscheduled"}
            THEN [d.mpointings[j] EXCEPT !.status = "deleted"]
            ELSE IF d.mpointings[j].event = id /\ d.mpointings[j].status = "deleted"
            THEN [d.mpointings[j] EXCEPT !.status = "unscheduled"]
            ELSE d.mpointings[j]],
       !.pointings = [j \in DOMAIN d.pointings |->
            IF d.pointings[j].event = id /\ d.pointings[j].status = "pending"
            THEN [d.pointings[j] EXCEPT !.status = "deleted"]
            ELSE IF d.pointings[j].event = id /\ d.pointings[j].status = "deleted"
            THEN [d.pointings[j] EXCEPT !.status = "pending"]
            ELSE d.pointings[j]]]

DeleteEventMpointingsOnly(d, id) ==
    [d EXCEPT
       !.mpointings = [j \in DOMAIN d.mpointings |->
            IF d.mpointings[j].event = id
               /\ d.mpointings[j].status \in {"scheduled", "unscheduled"}
            THEN [d.mpointings[j] EXCEPT !.status = "deleted"]
            ELSE d.mpointings[j]]]

\* the body of the loop over db_events, up to the commit: the Mpointings of
\* db_event that are scheduled or unscheduled and its pending Pointings get
\* the status 'deleted'
DeleteEventPointings(d, id) ==
    [d EXCEPT
       !.mpointings = [j \in DOMAIN d.mpointings |->
            IF d.mpointings[j].event = id
               /\ d.mpointings[j].status \in {"scheduled", "unscheduled"}
            THEN [d.mpointings[j] EXCEPT !.status = "deleted"]
            ELSE d.mpointings[j]],
       !.pointings = [j \in DOMAIN d.pointings |->
            IF d.pointings[j].event = id /\ d.pointings[j].status = "pending"
            THEN [d.pointings[j] EXCEPT !.status = "deleted"]
            ELSE d.pointings[j]]]

\* The faults that a database can raise while a previous event is processed:
\* at the query of its Mpointings (lines 46-49), at the query of its
\* Pointings (lines 59-61), at the commit (line 68)
LoopFaults == {"query_mpointings", "query_pointings", "commit"}

NoFault == {"none"}

\* an iteration meets no fault, or one of them
CallFaults == NoFault \cup LoopFaults

DuplicateIvornNotTested(d, db_events, ev) == FALSE

\* any([db_event.ivorn == event.ivorn for db_event in db_events])
DuplicateIvorn(d, db_events, ev) ==
    \E k \in DOMAIN db_events : d.events[db_events[k]].ivorn = ev.ivorn

\* Lines 24-41, up to the loop: the previous events are queried; with none the
\* call returns, with one of the incoming ivorn it raises ValueError, else
\* it enters the loop at the first of them.
QueryPreviousEvents(d, ev) ==
    LET db_events == PreviousEvents(d, ev, Len(d.events))
    IN  IF db_events = <<>>
        THEN [raised |-> "none", pc |-> "done", k |-> 0, db_events |-> db_events]
        ELSE IF DuplicateIvorn(d, db_events, ev)
        THEN [raised |-> "ValueError", pc |-> "done", k |-> 0, db_events |-> db_events]
        ELSE [raised |-> "none", pc |-> "loop", k |-> 1, db_events |-> db_events]

\* Lines 42-68, one iteration of the loop, for the k-th previous event, on
\* the committed content d: the statuses set and committed, or the fault
\* raised with the session holding what was set and is not committed.  After
\* the last previous event the call returns.
LoopIteration(d, db_events, k, fault) ==
    LET db_event == db_events[k]
        marked == DeleteEventMpointings(d, db_event)
        deleted == DeleteEventPointings(d, db_event)
    IN  IF fault = "query_mpointings"
        THEN [db |-> d, raised |-> "OperationalError", session |-> d,
              pc |-> "done", k |-> k]
        ELSE IF fault = "query_pointings"
        THEN [db |-> d, raised |-> "OperationalError", session |-> marked,
              pc |-> "done", k |-> k]
        ELSE IF fault = "commit"
        THEN [db |-> d, raised |-> "OperationalError", session |-> deleted,
              pc |-> "done", k |-> k]
        ELSE [db |-> deleted, raised |-> "none", session |-> deleted,
              pc |-> IF k = Len(db_events) THEN "done" ELSE "loop", k |-> k + 1]

RollbackToStart(committed, start) == start

\* An exception leaves 'with db.open_session()' at line 24, which rolls the
\* session back: the database keeps what the commits of the earlier
\* iterations have written (committed), not what it held when the call
\* started (start).
Rollback(committed, start) == committed

----------------------------------------------------------------------------
(* get_mpointing_info *)

HasKey(mapping, key) == key \in DOMAIN mapping

RECURSIVE MinTimeNoReadout(_)
MinTimeNoReadout(expsets) ==
    IF expsets = <<>> THEN 0
    ELSE Head(expsets).exptime * Head(expsets).num_exp + MinTimeNoReadout(Tail(expsets))

\* sum((exp_data['exptime'] + 30) * exp_data['num_exp'] for exp_data in expsets)
RECURSIVE MinTime(_)
MinTime(expsets) ==
    IF expsets = <<>> THEN 0
    ELSE (Head(expsets).exptime + 30) * Head(expsets).num_exp + MinTime(Tail(expsets))

\* the keys of event.strategy that get_mpointing_info reads, in reading order
MpointingKeys ==
    <<"exposure_sets_dict", "start_time", "stop_time", "rank", "cadence_dict",
      "constraints_dict">>

get_mpointing_info(ev) ==
    LET strategy == ev.strategy
        expsets == [i \in DOMAIN strategy.exposure_sets_dict |->
                      [num_exp |-> strategy.exposure_sets_dict[i].num_exp,
                       exptime |-> strategy.exposure_sets_dict[i].exptime,
                       filt |-> strategy.exposure_sets_dict[i].filt,
                       binning |-> 1,
                       imgtype |-> "SCIENCE"]]
        mp_data == [too |-> TRUE,
                    min_time |-> MinTime(expsets),
                    valid_time |-> -1,
                    start_time |-> strategy.start_time,
                    stop_time |-> strategy.stop_time,
                    start_rank |-> strategy.rank,
                    num_todo |-> strategy.cadence_dict.num_todo,
                    wait_time |-> strategy.cadence_dict.wait_time,
                    max_sunalt |-> strategy.constraints_dict.max_sunalt,
                    min_alt |-> strategy.constraints_dict.min_alt,
                    min_moonsep |-> strategy.constraints_dict.min_moonsep,
                    max_moon |-> strategy.constraints_dict.max_moon]
    IN  IF \E i \in DOMAIN MpointingKeys : ~HasKey(strategy, MpointingKeys[i])
        THEN [raised |-> "KeyError", mp_data |-> <<>>, expsets |-> <<>>]
        ELSE [raised |-> "none", mp_data |-> mp_data, expsets |-> expsets]

----------------------------------------------------------------------------
(* get_grid, get_grid_tiles *)

\* The Grid rows have the ids 1..d.grids, in the order of their creation,
\* which is the order of session.query(db.Grid).all().
get_grid_First(d) == IF d.grids = 0 THEN 0 ELSE 1

\* db_grids[-1] of session.query(db.Grid).all(); 0 stands for the ValueError
\* 'No defined Grids found!'
get_grid(d) == d.grids

\* The GridTile rows: every Grid row of the database has one GridTile per
\* tile of the grid, named by the tile; the id of tile tilename of grid g.
\* query.one_or_none() for (grid == db_grid, name == tilename).
GridTileOf(db_grid, tilename) == (db_grid - 1) * NumTiles + tilename

RECURSIVE SumSeq(_)
SumSeq(s) == IF s = <<>> THEN 0 ELSE Head(s) + SumSeq(Tail(s))

MeanContourInsideOrOn(contours) == SumSeq(contours) <= 90 * Len(contours)

\* np.mean(event.skymap.contours[tile]) < 0.9, in percent and without the
\* division: sum / n < 90  <=>  sum < 90 * n
MeanContourInside(contours) == SumSeq(contours) < 90 * Len(contours)

\* table[mask]: the rows of table whose mask entry is true, in table order
RECURSIVE MaskRows(_, _)
MaskRows(table, mask) ==
    IF table = <<>> THEN <<>>
    ELSE IF Head(mask) THEN <<Head(table)>> \o MaskRows(Tail(table), Tail(mask))
         ELSE MaskRows(Tail(table), Tail(mask))

\* table.sort('prob'): ascending by prob, rows of equal prob keep their order
RECURSIVE InsertByProb(_, _)
InsertByProb(sorted, row) ==
    IF sorted = <<>> THEN <<row>>
    ELSE IF Head(sorted).prob <= row.prob
         THEN <<Head(sorted)>> \o InsertByProb(Tail(sorted), row)
         ELSE <<row>> \o sorted

RECURSIVE SortByProb(_)
SortByProb(table) ==
    IF table = <<>> THEN <<>>
    ELSE InsertByProb(SortByProb(SubSeq(table, 1, Len(table) - 1)), table[Len(table)])

\* table.reverse()
Reverse(table) == [i \in 1..Len(table) |-> table[Len(table) + 1 - i]]

\* The table of grid.get_table() has one row (tilename, ra, dec, prob) per
\* tile, in the order of grid.pixels; ra and dec are never read and left out.
\* Returns the attributes get_grid_tiles stores on the event.
get_grid_tiles(ev, db_grid) ==
    LET table == [t \in 1..NumTiles |-> [tilename |-> t, prob |-> ev.skymap[t].prob]]
        mask1 == [t \in 1..NumTiles |-> MeanContourInside(ev.skymap[t].contours)]
        mask == IF Cardinality({t \in 1..NumTiles : mask1[t]}) < 1
                THEN [t \in 1..NumTiles |-> table[t].prob > 90]
                ELSE mask1
        masked_table == MaskRows(table, mask)
    IN  [grid |-> db_grid,
         full_table |-> Reverse(SortByProb(table)),
         masked_table |-> Reverse(SortByProb(masked_table))]

----------------------------------------------------------------------------
(* add_to_database *)

\* masked_table[:limit], a Python slice
SliceTo(table, limit) ==
    IF limit >= 0
    THEN SubSeq(table, 1, IF limit < Len(table) THEN limit ELSE Len(table))
    ELSE SubSeq(table, 1, IF Len(table) + limit > 0 THEN Len(table) + limit ELSE 0)

\* tile_table[tile_table['prob'] > prob_limit]
AboveProbLimit(table, prob_limit) ==
    MaskRows(table, [i \in DOMAIN table |-> table[i].prob > prob_limit])

\* an Event table without the unique constraint on ivorn
IvornNotConstrained(d, ivorn) == FALSE

\* the ivorn column of the Event table is unique: the INSERT of a second row
\* with the same ivorn is refused by the database
IvornTaken(d, ivorn) == \E i \in DOMAIN d.events : d.events[i].ivorn = ivorn

\* the outcome of a call that raises inside 'with db.open_session()': the
\* session is rolled back and the committed content d stays
Raise(d, session, ev, exception) ==
    [db |-> d, event |-> ev, raised |-> exception, session |-> session]

\* session.commit(), explicit or on leaving 'with db.open_session()': the
\* pending rows of the session become the committed content, or the commit
\* fails and the session is rolled back
Commit(d, session, ev, fault) ==
    IF \E i \in Len(d.events) + 1..Len(session.events) :
           IvornTaken(d, session.events[i].ivorn)
    THEN Raise(d, session, ev, "IntegrityError")
    ELSE IF fault = "commit" THEN Raise(d, session, ev, "OperationalError")
    ELSE [db |-> session, event |-> ev, raised |-> "none", session |-> session]

\* get_user: the database user 'goto', created when it does not exist
DEFAULT_USER == "goto"

\* the Mpointing of the untiled case, lines 254-259
UntiledMpointing(ev, mp_data, db_event) ==
    [object_name |-> <<ev.name>>, ra |-> ev.coord.ra, dec |-> ev.coord.dec,
     status |-> "unscheduled", user |-> DEFAULT_USER, event |-> db_event,
     grid_tile |-> 0, survey_tile |-> 0, mp_data |-> mp_data]

TiledMpointingNamedByEvent(ev, mp_data, db_event, db_grid_tile, db_survey_tile, tilename) ==
    [object_name |-> <<ev.name>>, ra |-> NoneVal, dec |-> NoneVal,
     status |-> "unscheduled", user |-> DEFAULT_USER, event |-> db_event,
     grid_tile |-> db_grid_tile, survey_tile |-> db_survey_tile,
     mp_data |-> mp_data]

\* the Mpointing of the k-th row of the tile table, lines 283-290
TiledMpointing(ev, mp_data, db_event, db_grid_tile, db_survey_tile, tilename) ==
    [object_name |-> <<ev.name, tilename>>, ra |-> NoneVal, dec |-> NoneVal,
     status |-> "unscheduled", user |-> DEFAULT_USER, event |-> db_event,
     grid_tile |-> db_grid_tile, survey_tile |-> db_survey_tile,
     mp_data |-> mp_data]

\* the SurveyTile of a row of the tile table, lines 278-280
NewSurveyTile(weight, db_survey, db_grid_tile) ==
    [weight |-> weight, survey |-> db_survey, grid_tile |-> db_grid_tile]

\* the ExposureSet rows of Mpointing db_mpointing: one per entry of expsets
ExposureSetsOf(expsets, db_mpointing) ==
    [i \in DOMAIN expsets |->
        [mpointing |-> db_mpointing, num_exp |-> expsets[i].num_exp,
         exptime |-> expsets[i].exptime, filt |-> expsets[i].filt,
         binning |-> expsets[i].binning, imgtype |-> expsets[i].imgtype]]

\* the first Pointing, lines 303-307: db_mpointing.get_next_pointing() with
\* the event, and the grid tile and survey tile that the variables
\* db_grid_tile and db_survey_tile hold when the second loop runs
FirstPointing(db_mpointing, db_event, db_grid_tile, db_survey_tile) ==
    [status |-> "pending", mpointing |-> db_mpointing, event |-> db_event,
     grid_tile |-> db_grid_tile, survey_tile |-> db_survey_tile]

\* Lines 305-306 read the local variables db_grid_tile and db_survey_tile,
\* which are assigned only in the loop over the tile table of the tiled case
\* (lines 275 and 278); that loop runs at least once, the empty tile table
\* having returned at line 238.  FALSE is Python's UnboundLocalError.
TileVariablesAssigned(on_grid) == on_grid

\* the concatenation of the sequences rows[1], rows[2], ...
RECURSIVE Flatten(_)
Flatten(rows) == IF rows = <<>> THEN <<>> ELSE Head(rows) \o Flatten(Tail(rows))

AddTiledMpointingsSurveyCommitted(d, session, ev, info, db_event, db_grid, db_survey, fault) ==
    LET tile_table == ev.tile_table
        n == Len(tile_table)
        GridTileAt(k) == GridTileOf(db_grid, tile_table[k].tilename)
        SurveyTileAt(k) == Len(d.survey_tiles) + k
        MpointingAt(k) == Len(d.mpointings) + k
        \* after the loop over tile_table the two variables hold the last tile
        db_grid_tile == GridTileAt(n)
        db_survey_tile == SurveyTileAt(n)
        session2 ==
            [session EXCEPT
               !.users = @ \cup {DEFAULT_USER},
               !.survey_tiles = @ \o
                   [k \in 1..n |-> NewSurveyTile(tile_table[k].prob, db_survey,
                                                 GridTileAt(k))],
               !.mpointings = @ \o
                   [k \in 1..n |-> TiledMpointing(ev, info.mp_data, db_event,
                                       GridTileAt(k), SurveyTileAt(k),
                                       tile_table[k].tilename)],
               !.exposure_sets = @ \o
                   Flatten([k \in 1..n |-> ExposureSetsOf(info.expsets, MpointingAt(k))]),
               !.pointings = @ \o
                   [k \in 1..n |-> FirstPointing(MpointingAt(k), db_event,
                                                 db_grid_tile, db_survey_tile)]]
    IN  IF fault = "get_user"
        THEN [db |-> session, event |-> ev, raised |-> "OperationalError",
              session |-> session]
        ELSE IF ~TileVariablesAssigned(TRUE)
        THEN Raise(d, session2, ev, "UnboundLocalError")
        ELSE IF fault = "insert_items" THEN Raise(d, session2, ev, "OperationalError")
        ELSE Commit(d, session2, ev, fault)

\* lines 247-319 of the tiled case, for a tile table that is not empty
AddTiledMpointings(d, session, ev, info, db_event, db_grid, db_survey, fault) ==
    LET tile_table == ev.tile_table
        n == Len(tile_table)
        GridTileAt(k) == GridTileOf(db_grid, tile_table[k].tilename)
        SurveyTileAt(k) == Len(d.survey_tiles) + k
        MpointingAt(k) == Len(d.mpointings) + k
        \* after the loop over tile_table the two variables hold the last tile
        db_grid_tile == GridTileAt(n)
        db_survey_tile == SurveyTileAt(n)
        session2 ==
            [session EXCEPT
               !.users = @ \cup {DEFAULT_USER},
               !.survey_tiles = @ \o
                   [k \in 1..n |-> NewSurveyTile(tile_table[k].prob, db_survey,
                                                 GridTileAt(k))],
               !.mpointings = @ \o
                   [k \in 1..n |-> TiledMpointing(ev, info.mp_data, db_event,
                                       GridTileAt(k), SurveyTileAt(k),
                                       tile_table[k].tilename)],
               !.exposure_sets = @ \o
                   Flatten([k \in 1..n |-> ExposureSetsOf(info.expsets, MpointingAt(k))]),
               !.pointings = @ \o
                   [k \in 1..n |-> FirstPointing(MpointingAt(k), db_event,
                                                 db_grid_tile, db_survey_tile)]]
    IN  IF fault = "get_user" THEN Raise(d, session, ev, "OperationalError")
        ELSE IF ~TileVariablesAssigned(TRUE)
        THEN Raise(d, session2, ev, "UnboundLocalError")
        ELSE IF fault = "insert_items" THEN Raise(d, session2, ev, "OperationalError")
        ELSE Commit(d, session2, ev, fault)

\* lines 247-319 of the untiled case
AddUntiledMpointing(d, session, ev, info, db_event, fault) ==
    LET db_mpointing == Len(d.mpointings) + 1
        session2 ==
            [session EXCEPT
               !.users = @ \cup {DEFAULT_USER},
               !.mpointings = Append(@, UntiledMpointing(ev, info.mp_data, db_event)),
               \* the exposure sets are appended at lines 262-264 and again
               \* at lines 297-299
               !.exposure_sets = @ \o ExposureSetsOf(info.expsets, db_mpointing)
                                   \o ExposureSetsOf(info.expsets, db_mpointing),
               !.pointings = Append(@, FirstPointing(db_mpointing, db_event, 0, 0))]
        \* what has been built when line 305 is reached for the first
        \* Mpointing: the Pointing of line 303 has its event (line 304) and is
        \* not yet appended to the Mpointing (line 307)
        session1 ==
            [session2 EXCEPT
               !.pointings = Append(session.pointings,
                                    FirstPointing(0, db_event, 0, 0))]
    IN  \* the query of get_user flushes the pending Event row
        IF IvornTaken(d, ev.ivorn) THEN Raise(d, session, ev, "IntegrityError")
        ELSE IF fault = "get_user" THEN Raise(d, session, ev, "OperationalError")
        ELSE IF ~TileVariablesAssigned(FALSE)
        THEN Raise(d, session1, ev, "UnboundLocalError")
        ELSE IF fault = "insert_items" THEN Raise(d, session2, ev, "OperationalError")
        ELSE Commit(d, session2, ev, fault)

AddOnGridEmptyIsError(d, session, ev, info, db_event, fault) ==
    LET db_grid == get_grid(d)
        tables == get_grid_tiles(ev, db_grid)
        ev1 == [ev EXCEPT !.grid = tables.grid, !.full_table = tables.full_table,
                          !.masked_table = tables.masked_table]
        limited == SliceTo(ev1.masked_table, ev.strategy.tile_limit)
        tile_table == IF ev.strategy.prob_limit > 0
                      THEN AboveProbLimit(limited, ev.strategy.prob_limit)
                      ELSE limited
        ev2 == [ev1 EXCEPT !.tile_table = tile_table]
        db_survey == Len(d.surveys) + 1
        session2 == [session EXCEPT !.surveys =
                        Append(@, [name |-> ev.name, grid |-> db_grid, event |-> db_event])]
    IN  \* the query of get_grid flushes the pending Event row
        IF IvornTaken(d, ev.ivorn) THEN Raise(d, session, ev, "IntegrityError")
        ELSE IF db_grid = 0 THEN Raise(d, session, ev, "ValueError")
        ELSE IF fault = "get_skymap" THEN Raise(d, session, ev, "IOError")
        ELSE IF ~HasKey(ev.strategy, "tile_limit")
        THEN Raise(d, session, ev1, "KeyError")
        ELSE IF ~HasKey(ev.strategy, "prob_limit")
        THEN Raise(d, session, ev1, "KeyError")
        ELSE IF Len(tile_table) = 0 THEN Raise(d, session, ev2, "ValueError")
        ELSE AddTiledMpointings(d, session2, ev2, info, db_event, db_grid, db_survey, fault)

AddOnGridSurveyBeforeFilter(d, session, ev, info, db_event, fault) ==
    LET db_grid == get_grid(d)
        tables == get_grid_tiles(ev, db_grid)
        ev1 == [ev EXCEPT !.grid = tables.grid, !.full_table = tables.full_table,
                          !.masked_table = tables.masked_table]
        limited == SliceTo(ev1.masked_table, ev.strategy.tile_limit)
        tile_table == IF ev.strategy.prob_limit > 0
                      THEN AboveProbLimit(limited, ev.strategy.prob_limit)
                      ELSE limited
        ev2 == [ev1 EXCEPT !.tile_table = tile_table]
        db_survey == Len(d.surveys) + 1
        session2 == [session EXCEPT !.surveys =
                        Append(@, [name |-> ev.name, grid |-> db_grid, event |-> db_event])]
    IN  IF IvornTaken(d, ev.ivorn) THEN Raise(d, session, ev, "IntegrityError")
        ELSE IF db_grid = 0 THEN Raise(d, session, ev, "ValueError")
        ELSE IF fault = "get_skymap" THEN Raise(d, session, ev, "IOError")
        ELSE IF ~HasKey(ev.strategy, "tile_limit")
        THEN Raise(d, session, ev1, "KeyError")
        ELSE IF ~HasKey(ev.strategy, "prob_limit")
        THEN Raise(d, session, ev1, "KeyError")
        ELSE IF Len(tile_table) = 0 THEN Commit(d, session2, ev2, fault)
        ELSE AddTiledMpointings(d, session2, ev2, info, db_event, db_grid, db_survey, fault)

\* lines 215-245: the tiles of the event, the Survey
AddOnGrid(d, session, ev, info, db_event, fault) ==
    LET db_grid == get_grid(d)
        tables == get_grid_tiles(ev, db_grid)
        ev1 == [ev EXCEPT !.grid = tables.grid, !.full_table = tables.full_table,
                          !.masked_table = tables.masked_table]
        limited == SliceTo(ev1.masked_table, ev.strategy.tile_limit)
        tile_table == IF ev.strategy.prob_limit > 0
                      THEN AboveProbLimit(limited, ev.strategy.prob_limit)
                      ELSE limited
        ev2 == [ev1 EXCEPT !.tile_table = tile_table]
        db_survey == Len(d.surveys) + 1
        session2 == [session EXCEPT !.surveys =
                        Append(@, [name |-> ev.name, grid |-> db_grid, event |-> db_event])]
    IN  \* the query of get_grid flushes the pending Event row
        IF IvornTaken(d, ev.ivorn) THEN Raise(d, session, ev, "IntegrityError")
        ELSE IF db_grid = 0 THEN Raise(d, session, ev, "ValueError")
        ELSE IF fault = "get_skymap" THEN Raise(d, session, ev, "IOError")
        ELSE IF ~HasKey(ev.strategy, "tile_limit")
        THEN Raise(d, session, ev1, "KeyError")
        ELSE IF ~HasKey(ev.strategy, "prob_limit")
        THEN Raise(d, session, ev1, "KeyError")
        ELSE IF Len(tile_table) = 0 THEN Commit(d, session, ev2, fault)
        ELSE AddTiledMpointings(d, session2, ev2, info, db_event, db_grid, db_survey, fault)

add_to_database(d, ev, fault) ==
    LET info == get_mpointing_info(ev)
        db_event == Len(d.events) + 1
        session == [d EXCEPT !.events =
                       Append(@, [name |-> ev.name, ivorn |-> ev.ivorn,
                                  source |-> ev.source, event_type |-> ev.type])]
    IN  IF info.raised # "none" THEN Raise(d, d, ev, info.raised)
        ELSE IF ev.type = "GW_RETRACTION" THEN Commit(d, session, ev, fault)
        ELSE IF ~HasKey(ev.strategy, "on_grid") THEN Raise(d, session, ev, "KeyError")
        ELSE IF ev.strategy.on_grid
             THEN AddOnGrid(d, session, ev, info, db_event, fault)
             ELSE AddUntiledMpointing(d, session, ev, info, db_event, fault)

----------------------------------------------------------------------------
(* The inputs: Event objects, strategies, skymaps *)

Coords == {[ra |-> 120, dec |-> 45]}

\* a well-formed strategy mapping
Strategy(on_grid, tile_limit, prob_limit) ==
    [exposure_sets_dict |-> <<[num_exp |-> 2, exptime |-> 60, filt |-> "L"],
                              [num_exp |-> 1, exptime |-> 10, filt |-> "R"]>>,
     start_time |-> "start", stop_time |-> "stop", rank |-> 2,
     cadence_dict |-> [num_todo |-> 1, wait_time |-> 0],
     constraints_dict |-> [max_sunalt |-> -15, min_alt |-> 30, min_moonsep |-> 30,
                           max_moon |-> "B"],
     on_grid |-> on_grid, tile_limit |-> tile_limit, prob_limit |-> prob_limit]

\* the mapping without one of its keys
WithoutKey(mapping, key) == [k \in DOMAIN mapping \ {key} |-> mapping[k]]

TileLimits == {1, 5}
ProbLimits == {0, 30, 100}

GridStrategies ==
    {Strategy(TRUE, tile_limit, prob_limit) :
        tile_limit \in TileLimits, prob_limit \in ProbLimits}

UntiledStrategy == Strategy(FALSE, 5, 0)

MalformedStrategies ==
    {WithoutKey(Strategy(TRUE, 5, 0), key) :
        key \in {"exposure_sets_dict", "constraints_dict", "on_grid", "tile_limit",
                 "prob_limit"}}

Strategies == GridStrategies \cup {UntiledStrategy} \cup MalformedStrategies

\* A skymap gives every tile of the grid its contained probability and the
\* contour values of its pixels.
ProbValues == {5, 30, 90, 95}
ContourValues == {<<80, 80>>, <<80, 100>>, <<100, 100>>}
TileValues == [prob : ProbValues, contours : ContourValues]
Skymaps == [1..NumTiles -> TileValues]

\* the skymaps handed to add_to_database: a wide localisation (every tile
\* inside the 90% contour), a narrow one (no tile inside, one tile holds more
\* than 90%) and one that leaves no tile
Inside(prob) == [prob |-> prob, contours |-> <<80, 80>>]
Outside(prob) == [prob |-> prob, contours |-> <<100, 100>>]
WideSkymap == [t \in 1..NumTiles |-> IF t = 1 THEN Inside(30) ELSE Inside(95)]
NarrowSkymap == [t \in 1..NumTiles |-> IF t = 1 THEN Outside(95) ELSE Outside(5)]
FaintSkymap == [t \in 1..NumTiles |-> Outside(5)]
PlanSkymaps == {WideSkymap, NarrowSkymap, FaintSkymap}

\* the Event object before any of the functions has stored anything on it
NewEvent(name, source, ivorn, type, strategy, skymap) ==
    [name |-> name, ivorn |-> ivorn, source |-> source, type |-> type,
     coord |-> CHOOSE c \in Coords : TRUE, strategy |-> strategy, skymap |-> skymap,
     grid |-> 0, full_table |-> <<>>, masked_table |-> <<>>, tile_table |-> <<>>]

NoEvent == NewEvent("", "", 0, "", UntiledStrategy, FaintSkymap)

\* an event handed to remove_previous_events, which reads its name, source
\* and ivorn only
DedupEvent(name, source, ivorn) ==
    NewEvent(name, source, ivorn, "GW_CBC", UntiledStrategy, FaintSkymap)

\* the type, strategy and skymap of the events handed to add_to_database:
\* every grid strategy with every skymap, the untiled and the malformed
\* strategies, and retractions with a grid, an untiled and a malformed
\* strategy
PlanKinds ==
    ({"GW_CBC"} \X GridStrategies \X PlanSkymaps)
    \cup ({"GW_CBC"} \X ({UntiledStrategy} \cup MalformedStrategies) \X {WideSkymap})
    \cup ({"GW_RETRACTION"}
          \X {UntiledStrategy, Strategy(TRUE, 5, 0),
              WithoutKey(Strategy(TRUE, 5, 0), "exposure_sets_dict")}
          \X {WideSkymap})

PlanEvents ==
    {NewEvent(name, "LVC", ivorn, kind[1], kind[2], kind[3]) :
        name \in Names, ivorn \in 1..MaxEvents, kind \in PlanKinds}

\* the faults injected into a call of add_to_database: a failing skymap
\* download, a failing query of the user, a failing insert, a failing commit
Faults == {"none", "get_skymap", "get_user", "insert_items", "commit"}

\* faults are injected into the plans of these strategies
FaultsOf(ev) ==
    IF ev.skymap = WideSkymap /\ ev.strategy \in {UntiledStrategy, Strategy(TRUE, 5, 0)}
    THEN Faults ELSE {"none"}

----------------------------------------------------------------------------
(* The calls *)

NoCall == [op |-> "none", fault |-> "none", raised |-> "none"]

\* no caller is ingesting concurrently
NoCallers == <<>>

\* the events of one source
LVCOnly == {"LVC"}

\* the ivorn of the event is that of the first Event row, or is not stored
FirstOrNew == {1, MaxPrior + 1}

\* The operations that run the loop of remove_previous_events
ReconcileOps == {"remove_previous_events", "remove_previous_events_again"}

\* the call is between two iterations of the loop of remove_previous_events:
\* what the earlier iterations have set is committed, the next is to run
InLoop == call.op \in ReconcileOps /\ call.pc = "loop"

\* What remove_previous_events is after lines 24-41: the previous events are
\* queried and the ivorn is tested; nothing is written.
EnterCall(op, ev) ==
    LET query == QueryPreviousEvents(db, ev)
    IN  /\ call' = [op |-> op, fault |-> "none", raised |-> query.raised,
                    pc |-> query.pc, failAt |-> 0, k |-> query.k,
                    db_events |-> query.db_events]
        /\ event' = ev
        /\ last_session' = db

\* remove_previous_events is called with an event of one of the sources and
\* ivorns: lines 24-41
RemovePreviousEvents(sources, ivorns) ==
    /\ call = NoCall
    /\ \E name \in Names, source \in sources, ivorn \in ivorns :
        EnterCall("remove_previous_events", DedupEvent(name, source, ivorn))
    /\ pre' = db
    /\ UNCHANGED <<db, callers>>

\* One iteration of the loop, lines 42-68, in which the database may raise
\* one of the faults: the records of one previous event are set to 'deleted'
\* and committed; or the database raises, and leaving the 'with' block rolls
\* back what this iteration has set.
LoopStep(faults) ==
    /\ InLoop
    /\ \E fault \in faults :
        LET result == LoopIteration(db, call.db_events, call.k, fault)
        IN  /\ db' = IF result.raised = "none" THEN result.db
                      ELSE Rollback(result.db, pre)
            /\ call' = [call EXCEPT !.fault = fault, !.raised = result.raised,
                                    !.pc = result.pc,
                                    !.failAt = IF fault = "none" THEN 0 ELSE call.k,
                                    !.k = result.k]
            /\ last_session' = result.session
    /\ UNCHANGED <<pre, event, callers>>

RemovePreviousEventsLoop == LoopStep(CallFaults)

AddToDatabase ==
    /\ call = NoCall
    /\ Len(db.events) < MaxEvents
    /\ \E ev \in PlanEvents : \E fault \in FaultsOf(ev) :
        LET result == add_to_database(db, ev, fault)
        IN  /\ fault = "none" \/ result.raised \in {"OperationalError", "IOError"}
            /\ db' = result.db
            /\ pre' = db
            /\ call' = [op |-> "add_to_database", fault |-> fault,
                        raised |-> result.raised]
            /\ event' = result.event
            /\ last_session' = result.session
            /\ UNCHANGED callers

\* The call has returned to its caller: the Event object is dropped, and the
\* next call finds the database as this one left it.
Return ==
    /\ call # NoCall
    /\ ~InLoop
    /\ pre' = db
    /\ call' = NoCall
    /\ event' = NoEvent
    /\ last_session' = db
    /\ UNCHANGED <<db, callers>>

\* The database holds no event yet; no Grid is defined in it, or MaxGrids are.
Init ==
    /\ db \in {EmptyDb, [EmptyDb EXCEPT !.grids = MaxGrids]}
    /\ pre = db
    /\ call = NoCall
    /\ event = NoEvent
    /\ last_session = db
    /\ callers = NoCallers

Next ==
    \/ AddToDatabase
    \/ RemovePreviousEvents(LVCOnly, 1..MaxEvents)
    \/ RemovePreviousEventsLoop
    \/ Return

Spec == Init /\ [][Next]_vars

----------------------------------------------------------------------------
(* Reconciliation against a database that already holds events *)

\* What the database holds for an event ingested earlier: its Mpointings,
\* each with its status and the statuses of its Pointings, as the scheduler
\* has left them.
Mp(status, pointings) == [status |-> status, pointings |-> pointings]

PriorProfiles ==
    {<<>>,
     <<Mp("scheduled", <<"pending">>)>>,
     <<Mp("scheduled", <<"running">>), Mp("scheduled", <<"completed", "pending">>)>>,
     <<Mp("unscheduled", <<"completed">>)>>,
     <<Mp("unscheduled", <<"aborted">>), Mp("unscheduled", <<"interrupted">>)>>,
     <<Mp("completed", <<"completed">>), Mp("expired", <<"expired">>)>>,
     <<Mp("deleted", <<"deleted">>)>>}

PriorRows == [name : Names, source : Sources, profile : PriorProfiles]

\* the database d with one more event, its ivorn the number of the row
AddPriorEvent(d, row) ==
    LET db_event == Len(d.events) + 1
        ev == NewEvent(row.name, row.source, db_event, "GW_CBC", UntiledStrategy,
                       FaintSkymap)
        info == get_mpointing_info(ev)
        MpointingAt(j) == Len(d.mpointings) + j
    IN  [d EXCEPT
           !.events = Append(@, [name |-> row.name, ivorn |-> db_event,
                                 source |-> row.source, event_type |-> ev.type]),
           !.users = @ \cup {DEFAULT_USER},
           !.mpointings = @ \o
               [j \in DOMAIN row.profile |->
                   [UntiledMpointing(ev, info.mp_data, db_event)
                       EXCEPT !.status = row.profile[j].status]],
           !.exposure_sets = @ \o
               Flatten([j \in DOMAIN row.profile |->
                           ExposureSetsOf(info.expsets, MpointingAt(j))]),
           !.pointings = @ \o
               Flatten([j \in DOMAIN row.profile |->
                   [k \in DOMAIN row.profile[j].pointings |->
                       [FirstPointing(MpointingAt(j), db_event, 0, 0)
                           EXCEPT !.status = row.profile[j].pointings[k]]]])]

RECURSIVE PriorDb(_)
PriorDb(rows) ==
    IF rows = <<>> THEN EmptyDb
    ELSE AddPriorEvent(PriorDb(SubSeq(rows, 1, Len(rows) - 1)), rows[Len(rows)])

InitDedup ==
    /\ db \in {PriorDb(rows) : rows \in UNION {[1..n -> PriorRows] : n \in 0..MaxPrior}}
    /\ pre = db
    /\ call = NoCall
    /\ event = NoEvent
    /\ last_session = db
    /\ callers = NoCallers

NextDedup ==
    \/ RemovePreviousEvents(Sources, FirstOrNew)
    \/ RemovePreviousEventsLoop
    \/ Return

SpecDedup == InitDedup /\ [][NextDedup]_vars

----------------------------------------------------------------------------
(* get_grid_tiles on every skymap *)

GetGridTiles ==
    /\ call = NoCall
    /\ LET tables == get_grid_tiles(event, get_grid(db))
       IN  event' = [event EXCEPT !.grid = tables.grid,
                                  !.full_table = tables.full_table,
                                  !.masked_table = tables.masked_table]
    /\ call' = [op |-> "get_grid_tiles", fault |-> "none", raised |-> "none"]
    /\ UNCHANGED <<db, pre, last_session, callers>>

InitTiles ==
    /\ db = [EmptyDb EXCEPT !.grids = 1]
    /\ pre = db
    /\ call = NoCall
    /\ event \in {NewEvent("GRB1", "SWIFT", 1, "GRB", Strategy(TRUE, 5, 0), skymap) :
                     skymap \in Skymaps}
    /\ last_session = db
    /\ callers = NoCallers

NextTiles == GetGridTiles

SpecTiles == InitTiles /\ [][NextTiles]_vars

----------------------------------------------------------------------------
(* get_mpointing_info on every list of exposure sets *)

ExposureSetDicts == [num_exp : {1, 2}, exptime : {10, 60}, filt : {"L", "R"}]

ExposureSetLists == UNION {[1..n -> ExposureSetDicts] : n \in 0..MaxExpSets}

GetMpointingInfo ==
    /\ call = NoCall
    /\ LET info == get_mpointing_info(event)
       IN  call' = [op |-> "get_mpointing_info", fault |-> "none",
                    raised |-> info.raised, mp_data |-> info.mp_data,
                    expsets |-> info.expsets]
    /\ UNCHANGED <<db, pre, event, last_session, callers>>

InitInfo ==
    /\ db = EmptyDb
    /\ pre = db
    /\ call = NoCall
    /\ event \in {NewEvent("GW1", "LVC", 1, "GW_CBC",
                            [Strategy(TRUE, 5, 0) EXCEPT !.exposure_sets_dict = sets],
                            FaintSkymap) :
                     sets \in ExposureSetLists}
    /\ last_session = db
    /\ callers = NoCallers

NextInfo == GetMpointingInfo

SpecInfo == InitInfo /\ [][NextInfo]_vars

----------------------------------------------------------------------------
(* Callers that ingest the same notice concurrently: each of them calls
   remove_previous_events and then add_to_database.  Each call runs in a
   database session of its own; the database serialises the sessions. *)

Callers == 1..NumCallers

\* the database when the notice arrives: the Grids, and no Event, or one or
\* two earlier Events of the name "GW1", each with a scheduled Mpointing
RaceDbs ==
    {[EmptyDb EXCEPT !.grids = MaxGrids],
     [PriorDb(<<[name |-> "GW1", source |-> "LVC",
                 profile |-> <<Mp("scheduled", <<"pending">>)>>]>>)
         EXCEPT !.grids = MaxGrids],
     [PriorDb(<<[name |-> "GW1", source |-> "LVC",
                 profile |-> <<Mp("scheduled", <<"pending">>)>>],
                [name |-> "GW1", source |-> "LVC",
                 profile |-> <<Mp("scheduled", <<"pending">>)>>]>>)
         EXCEPT !.grids = MaxGrids]}

\* the notice: its ivorn is not in the database
RaceNotices ==
    {NewEvent(name, "LVC", MaxPrior + 1, kind[1], kind[2], kind[3]) :
        name \in Names,
        kind \in {<<"GW_CBC", Strategy(TRUE, 5, 0), WideSkymap>>,
                  <<"GW_CBC", Strategy(TRUE, 1, 0), NarrowSkymap>>,
                  <<"GW_CBC", Strategy(TRUE, 5, 0), FaintSkymap>>,
                  <<"GW_RETRACTION", Strategy(TRUE, 5, 0), WideSkymap>>}}

\* caller c calls remove_previous_events: lines 24-41
Reconcile(c) ==
    /\ callers[c].pc = "remove_previous_events"
    /\ LET query == QueryPreviousEvents(db, event)
       IN  callers' = [callers EXCEPT ![c] =
               [raised |-> query.raised,
                pc |-> IF query.raised # "none" THEN "refused"
                       ELSE IF query.pc = "loop" THEN "loop"
                       ELSE "add_to_database",
                k |-> query.k, db_events |-> query.db_events]]
    /\ UNCHANGED <<db, pre, call, event, last_session>>

\* caller c runs one iteration of the loop of remove_previous_events, lines
\* 42-68, and commits it
ReconcileLoop(c) ==
    /\ callers[c].pc = "loop"
    /\ LET result == LoopIteration(db, callers[c].db_events, callers[c].k, "none")
       IN  /\ db' = result.db
           /\ callers' = [callers EXCEPT
                  ![c].pc = IF result.pc = "loop" THEN "loop" ELSE "add_to_database",
                  ![c].k = result.k]
    /\ UNCHANGED <<pre, call, event, last_session>>

\* caller c runs add_to_database
CommitPlan(c) ==
    /\ callers[c].pc = "add_to_database"
    /\ LET result == add_to_database(db, event, "none")
       IN  /\ db' = result.db
           /\ callers' = [callers EXCEPT ![c].raised = result.raised,
                                         ![c].pc = "done"]
    /\ UNCHANGED <<pre, call, event, last_session>>

InitRace ==
    /\ db \in RaceDbs
    /\ pre = db
    /\ call = NoCall
    /\ event \in RaceNotices
    /\ last_session = db
    /\ callers = [c \in Callers |-> [raised |-> "none", pc |-> "remove_previous_events",
                                     k |-> 0, db_events |-> <<>>]]

NextRace == \E c \in Callers : Reconcile(c) \/ ReconcileLoop(c) \/ CommitPlan(c)

SpecRace == InitRace /\ [][NextRace]_vars

----------------------------------------------------------------------------
(* One caller that ingests notices one after another: for each notice it
   calls remove_previous_events and, when that has returned, add_to_database *)

\* the Mpointings that are scheduled or unscheduled and the Pointings that are
\* pending, of the Events of name and source in database d
ActiveMpointings(d, name, source) ==
    {j \in DOMAIN d.mpointings :
        /\ d.mpointings[j].status \in {"scheduled", "unscheduled"}
        /\ d.events[d.mpointings[j].event].name = name
        /\ d.events[d.mpointings[j].event].source = source}

PendingPointings(d, name, source) ==
    {j \in DOMAIN d.pointings :
        /\ d.pointings[j].status = "pending"
        /\ d.events[d.pointings[j].event].name = name
        /\ d.events[d.pointings[j].event].source = source}

\* the last Event row of name and source, 0 when there is none
LatestEvent(d, name, source) ==
    LET ids == {i \in DOMAIN d.events :
                   d.events[i].name = name /\ d.events[i].source = source}
    IN  IF ids = {} THEN 0 ELSE CHOOSE i \in ids : \A i2 \in ids : i2 <= i

\* every active record belongs to the last Event of its name and source
ActiveOnlyOfLatest(d) ==
    \A name \in Names, source \in Sources :
        /\ \A j \in ActiveMpointings(d, name, source) :
              d.mpointings[j].event = LatestEvent(d, name, source)
        /\ \A j \in PendingPointings(d, name, source) :
              d.pointings[j].event = LatestEvent(d, name, source)

\* the notices: a plan with several tiles, with one tile, with no tile left,
\* a retraction, an untiled plan and a plan without tile_limit; the ivorn is
\* new, or is the ivorn 1
IngestKinds ==
    {<<"GW_CBC", Strategy(TRUE, 5, 0), WideSkymap>>,
     <<"GW_CBC", Strategy(TRUE, 1, 0), NarrowSkymap>>,
     <<"GW_CBC", Strategy(TRUE, 5, 100), WideSkymap>>,
     <<"GW_RETRACTION", Strategy(TRUE, 5, 0), WideSkymap>>,
     <<"GW_CBC", UntiledStrategy, WideSkymap>>,
     <<"GW_CBC", WithoutKey(Strategy(TRUE, 5, 0), "tile_limit"), WideSkymap>>}

IngestNotices(d) ==
    {NewEvent(name, "LVC", ivorn, kind[1], kind[2], kind[3]) :
        name \in Names, ivorn \in {1, Len(d.events) + 1}, kind \in IngestKinds}

\* the caller calls remove_previous_events for the next notice
IngestReconcile ==
    /\ call = NoCall
    /\ Len(db.events) < MaxPrior + 1
    /\ \E ev \in IngestNotices(db) : EnterCall("remove_previous_events", ev)
    /\ pre' = db
    /\ UNCHANGED <<db, callers>>

\* remove_previous_events has returned without error
ReconciledNoError ==
    call.op = "remove_previous_events" /\ call.pc = "done" /\ call.raised = "none"

\* remove_previous_events has returned without error: the caller calls
\* add_to_database for the notice
Ingest ==
    /\ ReconciledNoError
    /\ LET result == add_to_database(db, event, "none")
       IN  /\ db' = result.db
           /\ call' = [op |-> "ingest", fault |-> "none", raised |-> result.raised]
           /\ event' = result.event
           /\ last_session' = result.session
    /\ UNCHANGED <<pre, callers>>

\* the caller has dealt with the notice: remove_previous_events has raised,
\* or add_to_database has returned or raised
IngestReturn == ~ReconciledNoError /\ Return

\* The database when the caller starts: the Grids, and the Events ingested
\* earlier from the source "LVC", with the statuses the scheduler has given
\* their records; the records of an Event that was followed by another Event
\* of its name are no longer active.
InitIngest ==
    /\ db \in {[d EXCEPT !.grids = MaxGrids] :
                  d \in {PriorDb(rows) :
                            rows \in UNION {[1..n -> [name : Names, source : {"LVC"},
                                                     profile : PriorProfiles]] :
                                               n \in 0..MaxPrior}}}
    /\ ActiveOnlyOfLatest(db)
    /\ pre = db
    /\ call = NoCall
    /\ event = NoEvent
    /\ last_session = db
    /\ callers = NoCallers

NextIngest == IngestReconcile \/ RemovePreviousEventsLoop \/ Ingest \/ IngestReturn

SpecIngest == InitIngest /\ [][NextIngest]_vars

----------------------------------------------------------------------------
(* remove_previous_events called a second time for the same event, and
   add_to_database, on a database that holds deleted records *)

\* remove_previous_events has returned without error and is called again
\* with the same event
RemovePreviousEventsAgain ==
    /\ ReconciledNoError
    /\ EnterCall("remove_previous_events_again", event)
    /\ pre' = db
    /\ UNCHANGED <<db, callers>>

\* the database raises no fault in these calls
RemovePreviousEventsLoopNoFault == LoopStep(NoFault)

InitAgain ==
    /\ db \in {[d EXCEPT !.grids = MaxGrids] :
                  d \in {PriorDb(rows) :
                            rows \in UNION {[1..n -> [name : Names, source : {"LVC"},
                                                     profile : PriorProfiles]] :
                                               n \in 0..MaxPrior}}}
    /\ pre = db
    /\ call = NoCall
    /\ event = NoEvent
    /\ last_session = db
    /\ callers = NoCallers

NextAgain ==
    \/ RemovePreviousEvents(LVCOnly, FirstOrNew)
    \/ RemovePreviousEventsLoopNoFault
    \/ RemovePreviousEventsAgain
    \/ AddToDatabase
    \/ Return

SpecAgain == InitAgain /\ [][NextAgain]_vars

----------------------------------------------------------------------------
(* Properties of remove_previous_events *)

SameEvent(row, ev) == row.name = ev.name /\ row.source = ev.source

Reconciled == call.op = "remove_previous_events" /\ call.pc = "done"

\* C1: after remove_previous_events has returned without error, every
\* Mpointing that was scheduled or unscheduled and every Pointing that was
\* pending, of every stored Event with the name and source of the incoming
\* event, has the status 'deleted'.
C1_PreviousPointingsDeleted ==
    (Reconciled /\ call.raised = "none") =>
        \A i \in DOMAIN pre.events : SameEvent(pre.events[i], event) =>
            /\ \A j \in DOMAIN pre.mpointings :
                  (pre.mpointings[j].event = i
                   /\ pre.mpointings[j].status \in {"scheduled", "unscheduled"})
                  => db.mpointings[j].status = "deleted"
            /\ \A j \in DOMAIN pre.pointings :
                  (pre.pointings[j].event = i /\ pre.pointings[j].status = "pending")
                  => db.pointings[j].status = "deleted"

\* two previous events of the incoming event's name and source: a scheduled
\* Mpointing, a pending Pointing and a running Pointing of the first, an
\* unscheduled Mpointing of the second; the call has deleted all but the
\* running Pointing
C1_Witness ==
    /\ Reconciled /\ call.raised = "none"
    /\ \E i1, i2 \in DOMAIN pre.events :
        /\ i1 # i2
        /\ SameEvent(pre.events[i1], event) /\ SameEvent(pre.events[i2], event)
        /\ \E j \in DOMAIN pre.mpointings :
              /\ pre.mpointings[j].event = i1 /\ pre.mpointings[j].status = "scheduled"
              /\ db.mpointings[j].status = "deleted"
        /\ \E j \in DOMAIN pre.pointings :
              /\ pre.pointings[j].event = i1 /\ pre.pointings[j].status = "pending"
              /\ db.pointings[j].status = "deleted"
        /\ \E j \in DOMAIN pre.pointings :
              /\ pre.pointings[j].event = i1 /\ pre.pointings[j].status = "running"
              /\ db.pointings[j].status = "running"
        /\ \E j \in DOMAIN pre.mpointings :
              /\ pre.mpointings[j].event = i2 /\ pre.mpointings[j].status = "unscheduled"
              /\ db.mpointings[j].status = "deleted"

\* C2: remove_previous_events changes nothing but the status of the records it
\* targets: no row is removed or added, no other column changes, an Mpointing
\* that is neither scheduled nor unscheduled and a Pointing that is not pending
\* keep their status, and the records of an Event with another name or another
\* source are unchanged.  This holds after each commit of the call, and when
\* the call has returned or raised.
C2_OnlyTargetedStatusChanges ==
    call.op = "remove_previous_events" =>
        /\ db.events = pre.events
        /\ db.exposure_sets = pre.exposure_sets
        /\ db.surveys = pre.surveys
        /\ db.survey_tiles = pre.survey_tiles
        /\ db.users = pre.users
        /\ db.grids = pre.grids
        /\ DOMAIN db.mpointings = DOMAIN pre.mpointings
        /\ DOMAIN db.pointings = DOMAIN pre.pointings
        /\ \A j \in DOMAIN pre.mpointings :
              /\ [db.mpointings[j] EXCEPT !.status = pre.mpointings[j].status]
                     = pre.mpointings[j]
              /\ db.mpointings[j].status \in {pre.mpointings[j].status, "deleted"}
              /\ pre.mpointings[j].status \notin {"scheduled", "unscheduled"}
                     => db.mpointings[j] = pre.mpointings[j]
              /\ ~SameEvent(pre.events[pre.mpointings[j].event], event)
                     => db.mpointings[j] = pre.mpointings[j]
        /\ \A j \in DOMAIN pre.pointings :
              /\ [db.pointings[j] EXCEPT !.status = pre.pointings[j].status]
                     = pre.pointings[j]
              /\ db.pointings[j].status \in {pre.pointings[j].status, "deleted"}
              /\ pre.pointings[j].status # "pending"
                     => db.pointings[j] = pre.pointings[j]
              /\ ~SameEvent(pre.events[pre.pointings[j].event], event)
                     => db.pointings[j] = pre.pointings[j]

\* the call has deleted records of a previous event and has left alone a
\* running Pointing of that event, and a scheduled Mpointing and a pending
\* Pointing of an event of the same name from another source
C2_Witness ==
    /\ Reconciled /\ call.raised = "none" /\ db # pre
    /\ \E j \in DOMAIN pre.pointings :
          /\ SameEvent(pre.events[pre.pointings[j].event], event)
          /\ pre.pointings[j].status = "running"
          /\ db.pointings[j].status = "running"
    /\ \E j \in DOMAIN pre.mpointings, k \in DOMAIN pre.pointings :
          /\ pre.events[pre.mpointings[j].event].name = event.name
          /\ pre.events[pre.mpointings[j].event].source # event.source
          /\ pre.pointings[k].mpointing = j
          /\ pre.mpointings[j].status = "scheduled"
          /\ pre.pointings[k].status = "pending"
          /\ db.mpointings[j].status = "scheduled"
          /\ db.pointings[k].status = "pending"

\* C3: when a stored Event with the incoming event's name and source has the
\* incoming event's ivorn, remove_previous_events raises the ValueError of the
\* duplicate ivorn and has written nothing.
C3_DuplicateIvornBeforeAnyWrite ==
    (Reconciled
     /\ \E i \in DOMAIN pre.events :
           SameEvent(pre.events[i], event) /\ pre.events[i].ivorn = event.ivorn)
    => (call.raised = "ValueError" /\ db = pre)

\* the duplicate is raised although another previous event of the same name
\* and source owns a scheduled Mpointing and a pending Pointing, which stay
C3_Witness ==
    /\ Reconciled /\ call.raised = "ValueError"
    /\ \E i1, i2 \in DOMAIN pre.events :
        /\ i1 # i2
        /\ SameEvent(pre.events[i1], event) /\ pre.events[i1].ivorn = event.ivorn
        /\ SameEvent(pre.events[i2], event)
        /\ \E j \in DOMAIN db.mpointings, k \in DOMAIN db.pointings :
              /\ db.mpointings[j].event = i2 /\ db.mpointings[j].status = "scheduled"
              /\ db.pointings[k].event = i2 /\ db.pointings[k].status = "pending"

\* C4: an event whose ivorn is already stored, under whatever name and source,
\* is refused with the ValueError of the duplicate ivorn and leaves the
\* database unchanged; no two Event rows share an ivorn.
C4_DuplicateIvornAnyNameRefused ==
    /\ (Reconciled /\ IvornTaken(pre, event.ivorn))
           => (call.raised = "ValueError" /\ db = pre)
    /\ \A i, j \in DOMAIN db.events :
           db.events[i].ivorn = db.events[j].ivorn => i = j

\* the stored Events with the name and source of the incoming event
Matches == {i \in DOMAIN pre.events : SameEvent(pre.events[i], event)}

\* the place of Event i among them, in the order of the query
Position(i) == Cardinality({m \in Matches : m <= i})

\* C17: each previous Event is committed on its own: when a fault is met
\* while the k-th previous Event is processed, remove_previous_events raises,
\* the deletions made for the previous Events 1..k-1 are in the database, and
\* the records of the k-th and the later ones are as they were.  Between two
\* commits of the loop the database is in that state as well.
C17_EarlierCommitsPersist ==
    call.op = "remove_previous_events" =>
        /\ (call.pc = "done" /\ call.fault # "none") =>
               /\ call.raised = "OperationalError"
               /\ call.failAt \in 1..Cardinality(Matches)
               /\ call.k = call.failAt
        /\ (call.pc = "loop" \/ call.fault # "none") =>
               /\ \A j \in DOMAIN pre.mpointings :
                     LET i == pre.mpointings[j].event
                     IN  IF i \in Matches /\ Position(i) < call.k
                            /\ pre.mpointings[j].status \in {"scheduled", "unscheduled"}
                         THEN db.mpointings[j]
                                  = [pre.mpointings[j] EXCEPT !.status = "deleted"]
                         ELSE db.mpointings[j] = pre.mpointings[j]
               /\ \A j \in DOMAIN pre.pointings :
                     LET i == pre.pointings[j].event
                     IN  IF i \in Matches /\ Position(i) < call.k
                            /\ pre.pointings[j].status = "pending"
                         THEN db.pointings[j]
                                  = [pre.pointings[j] EXCEPT !.status = "deleted"]
                         ELSE db.pointings[j] = pre.pointings[j]

\* the fault is met at the commit for the second previous Event: the
\* scheduled Mpointing and the pending Pointing of the first are deleted, the
\* scheduled Mpointing of the second is still scheduled, although the session
\* had set it to 'deleted'
C17_Witness ==
    /\ Reconciled /\ call.fault = "commit" /\ call.failAt = 2
    /\ call.raised = "OperationalError"
    /\ last_session # db
    /\ \E i1, i2 \in Matches :
        /\ Position(i1) = 1 /\ Position(i2) = 2
        /\ \E j \in DOMAIN pre.mpointings :
              /\ pre.mpointings[j].event = i1 /\ pre.mpointings[j].status = "scheduled"
              /\ db.mpointings[j].status = "deleted"
        /\ \E j \in DOMAIN pre.pointings :
              /\ pre.pointings[j].event = i1 /\ pre.pointings[j].status = "pending"
              /\ db.pointings[j].status = "deleted"
        /\ \E j \in DOMAIN pre.mpointings :
              /\ pre.mpointings[j].event = i2 /\ pre.mpointings[j].status = "scheduled"
              /\ db.mpointings[j].status = "scheduled"
              /\ last_session.mpointings[j].status = "deleted"

----------------------------------------------------------------------------
(* Properties of add_to_database *)

Added == call.op = "add_to_database"

\* the Event row of an event
EventRow(ev) ==
    [name |-> ev.name, ivorn |-> ev.ivorn, source |-> ev.source, event_type |-> ev.type]

\* the strategy has every key that is read
WellFormed(strategy) == DOMAIN strategy = DOMAIN UntiledStrategy

\* the call met no injected fault, and the ivorn of its event was not stored
Undisturbed == Added /\ call.fault = "none" /\ ~IvornTaken(pre, event.ivorn)

\* the rows of the masked table that survive tile_limit and prob_limit
KeptTiles(ev) ==
    {i \in DOMAIN ev.masked_table :
        /\ i <= ev.strategy.tile_limit
        /\ ev.strategy.prob_limit > 0 => ev.masked_table[i].prob > ev.strategy.prob_limit}

\* C5: add_to_database of a GW_RETRACTION event commits exactly the Event row
\* and nothing else, whatever the strategy of the event holds.
C5_RetractionAddsOnlyTheEvent ==
    (Undisturbed /\ event.type = "GW_RETRACTION") =>
        /\ call.raised = "none"
        /\ db = [pre EXCEPT !.events = Append(@, EventRow(event))]

\* C6: when add_to_database raises, nothing of the call is committed: the
\* database is the database before the call.
C6_RaisedLeavesNothing ==
    (Added /\ call.raised # "none") => db = pre

\* the query of the user failed after the Event and the Survey of a plan with
\* tiles had been added to the session; neither is in the database
C6_Witness ==
    /\ Added /\ call.fault = "get_user" /\ call.raised = "OperationalError"
    /\ event.type # "GW_RETRACTION" /\ event.strategy.on_grid
    /\ Len(event.tile_table) > 0
    /\ Len(pre.events) > 0
    /\ db.events = pre.events /\ db.surveys = pre.surveys
    /\ db.mpointings = pre.mpointings

\* C7: for an event that is no retraction and whose strategy is not on the
\* grid, add_to_database completes without error and commits exactly one
\* Mpointing, with the RA and Dec of the event's coordinate.
C7_UntiledAddsOneMpointing ==
    (Undisturbed /\ event.type # "GW_RETRACTION" /\ WellFormed(event.strategy)
     /\ ~event.strategy.on_grid) =>
        /\ call.raised = "none"
        /\ Len(db.mpointings) = Len(pre.mpointings) + 1
        /\ db.mpointings[Len(db.mpointings)].ra = event.coord.ra
        /\ db.mpointings[Len(db.mpointings)].dec = event.coord.dec

\* C8: in the tiled case add_to_database creates one Mpointing per tile that
\* survives tile_limit and prob_limit, named <event>_<tilename>, with null RA
\* and Dec, linked to the GridTile of the tile and to a SurveyTile of its own,
\* new, whose weight is the probability of the tile.
C8_OneMpointingPerTile ==
    (Added /\ call.raised = "none" /\ event.type # "GW_RETRACTION"
     /\ event.strategy.on_grid) =>
        LET n == Cardinality(KeptTiles(event))
            Mpointing(k) == db.mpointings[Len(pre.mpointings) + k]
        IN  /\ Len(db.mpointings) = Len(pre.mpointings) + n
            /\ Len(db.survey_tiles) = Len(pre.survey_tiles) + n
            /\ Len(event.tile_table) = n
            /\ \A k \in 1..n :
                LET tile == event.tile_table[k]
                    mp == Mpointing(k)
                IN  /\ \E i \in KeptTiles(event) : event.masked_table[i] = tile
                    /\ mp.object_name = <<event.name, tile.tilename>>
                    /\ mp.ra = NoneVal /\ mp.dec = NoneVal
                    /\ mp.event = Len(db.events)
                    /\ mp.grid_tile = GridTileOf(db.grids, tile.tilename)
                    /\ mp.survey_tile \in Len(pre.survey_tiles) + 1..Len(db.survey_tiles)
                    /\ db.survey_tiles[mp.survey_tile].weight = event.skymap[tile.tilename].prob
                    /\ db.survey_tiles[mp.survey_tile].grid_tile = mp.grid_tile
                    /\ db.survey_tiles[mp.survey_tile].survey = Len(db.surveys)
                    /\ \A k2 \in 1..n :
                          Mpointing(k2).survey_tile = mp.survey_tile => k2 = k

\* tile_limit is 5 and fewer tiles pass: as many Mpointings as tiles, more
\* than one, are added to a database that held some already
C8_Witness ==
    /\ Added /\ call.raised = "none" /\ event.type # "GW_RETRACTION"
    /\ event.strategy.on_grid /\ event.strategy.tile_limit = 5
    /\ Len(event.tile_table) >= 2
    /\ Len(pre.mpointings) > 0
    /\ Len(db.mpointings) = Len(pre.mpointings) + Len(event.tile_table)

\* C9: when no tile is left after tile_limit and prob_limit, add_to_database
\* returns without raising, the Event row is committed, and no Mpointing,
\* ExposureSet, Pointing or SurveyTile row is created.
C9_EmptyTileSetStopsCleanly ==
    (Undisturbed /\ event.type # "GW_RETRACTION" /\ WellFormed(event.strategy)
     /\ event.strategy.on_grid /\ pre.grids > 0 /\ KeptTiles(event) = {}) =>
        /\ call.raised = "none"
        /\ db.events = Append(pre.events, EventRow(event))
        /\ db.mpointings = pre.mpointings
        /\ db.exposure_sets = pre.exposure_sets
        /\ db.pointings = pre.pointings
        /\ db.survey_tiles = pre.survey_tiles

\* tiles pass the mask, prob_limit 1.0 leaves none of them: the Event row is
\* the only row added
C9_Witness ==
    /\ Undisturbed /\ event.type # "GW_RETRACTION" /\ WellFormed(event.strategy)
    /\ event.strategy.on_grid /\ event.strategy.prob_limit = 100
    /\ Len(event.masked_table) > 0 /\ event.tile_table = <<>>
    /\ call.raised = "none"
    /\ Len(db.events) = Len(pre.events) + 1
    /\ db.mpointings = pre.mpointings

\* the Mpointings that the call has built, by the end of the call
BuiltMpointings == Len(pre.mpointings) + 1..Len(last_session.mpointings)

\* C12: every Mpointing that add_to_database builds and inserts, in the
\* untiled and in the tiled case, owns exactly one ExposureSet per entry of
\* the exposure_sets_dict of the strategy, none of them duplicated or shared,
\* and exactly one Pointing.
C12_OneExposureSetPerSpecOnePointing ==
    Added =>
        \A j \in BuiltMpointings :
            LET sets == event.strategy.exposure_sets_dict
                owned == {r \in DOMAIN last_session.exposure_sets :
                             last_session.exposure_sets[r].mpointing = j}
            IN  /\ Cardinality(owned) = Len(sets)
                /\ Len(sets) >= 1
                /\ \A i \in DOMAIN sets :
                      Cardinality({r \in owned :
                          /\ last_session.exposure_sets[r].num_exp = sets[i].num_exp
                          /\ last_session.exposure_sets[r].exptime = sets[i].exptime
                          /\ last_session.exposure_sets[r].filt = sets[i].filt}) = 1
                /\ Cardinality({r \in DOMAIN last_session.pointings :
                                   last_session.pointings[r].mpointing = j}) = 1

\* the Surveys that the call has committed
NewSurveys == Len(pre.surveys) + 1..Len(db.surveys)

\* the GridTile rows of a Grid
GridTilesOf(db_grid) == {GridTileOf(db_grid, t) : t \in 1..NumTiles}

\* C13 as stated: after add_to_database has committed, a Survey of the new
\* Event exists if and only if the strategy of the event is on_grid.
C13_SurveyIffOnGrid ==
    (Added /\ call.raised = "none" /\ HasKey(event.strategy, "on_grid")) =>
        ((\E s \in DOMAIN db.surveys : db.surveys[s].event = Len(db.events))
            <=> event.strategy.on_grid)

\* C13, amended: add_to_database keeps the Surveys of the earlier Events, and
\* commits a Survey of the new Event, one, if and only if the event is no
\* retraction, its strategy is on_grid and a tile survives tile_limit and
\* prob_limit; the Survey is of the latest Grid and has one SurveyTile per
\* surviving tile, each linked to a GridTile of that Grid.
C13_SurveyIffTilesKept ==
    (Added /\ call.raised = "none" /\ HasKey(event.strategy, "on_grid")) =>
        /\ SubSeq(db.surveys, 1, Len(pre.surveys)) = pre.surveys
        /\ Cardinality(NewSurveys) <= 1
        /\ NewSurveys # {} <=> (/\ event.type # "GW_RETRACTION"
                                /\ event.strategy.on_grid
                                /\ KeptTiles(event) # {})
        /\ \A s \in NewSurveys :
              LET tiles == {t \in DOMAIN db.survey_tiles : db.survey_tiles[t].survey = s}
              IN  /\ db.surveys[s].event = Len(db.events)
                  /\ db.surveys[s].grid = pre.grids
                  /\ Cardinality(tiles) = Cardinality(KeptTiles(event))
                  /\ \A t \in tiles :
                        db.survey_tiles[t].grid_tile \in GridTilesOf(db.surveys[s].grid)
        /\ \A t \in Len(pre.survey_tiles) + 1..Len(db.survey_tiles) :
              db.survey_tiles[t].survey \in NewSurveys

\* an on_grid event none of whose tiles survives is committed after an event
\* that has a Survey: the new Event has no Survey, the old Survey stays
C13_Witness ==
    /\ Added /\ call.raised = "none"
    /\ event.type # "GW_RETRACTION" /\ event.strategy.on_grid
    /\ KeptTiles(event) = {}
    /\ Len(pre.surveys) = 1
    /\ db.surveys = pre.surveys
    /\ Len(db.events) = Len(pre.events) + 1
    /\ db.surveys[1].event # Len(db.events)

\* C14: every first Pointing that add_to_database commits is linked to the
\* Event, the GridTile and the SurveyTile of the Mpointing it belongs to,
\* whatever the number of tiles of the plan.
C14_PointingLinkedAsItsMpointing ==
    (Added /\ call.raised = "none") =>
        \A p \in Len(pre.pointings) + 1..Len(db.pointings) :
            LET db_pointing == db.pointings[p]
                db_mpointing == db.mpointings[db_pointing.mpointing]
            IN  /\ db_pointing.event = db_mpointing.event
                /\ db_pointing.grid_tile = db_mpointing.grid_tile
                /\ db_pointing.survey_tile = db_mpointing.survey_tile

\* C15: the final tile table is the first tile_limit rows of the masked table
\* (descending by prob) from which, only when prob_limit is above 0, the rows
\* whose prob is below prob_limit are dropped: a row whose prob is not below
\* prob_limit is kept, and nothing is dropped when prob_limit is not above 0.
C15_TileLimitThenProbLimit ==
    (Undisturbed /\ event.type # "GW_RETRACTION" /\ WellFormed(event.strategy)
     /\ event.strategy.on_grid /\ pre.grids > 0) =>
        LET masked_table == event.masked_table
            tile_table == event.tile_table
            kept == {i \in DOMAIN masked_table :
                        /\ i <= event.strategy.tile_limit
                        /\ event.strategy.prob_limit > 0 =>
                               ~(masked_table[i].prob < event.strategy.prob_limit)}
        IN  /\ Len(tile_table) = Cardinality(kept)
            /\ {tile_table[k].tilename : k \in DOMAIN tile_table}
                   = {masked_table[i].tilename : i \in kept}
            /\ \A k \in DOMAIN tile_table :
                   tile_table[k].prob = event.skymap[tile_table[k].tilename].prob
            /\ \A k1, k2 \in DOMAIN tile_table :
                   k1 < k2 => tile_table[k1].prob >= tile_table[k2].prob

\* C16: the Grid that add_to_database tiles the skymap with and links to the
\* Survey is the Grid row created last; with no Grid row, a plan on the grid
\* fails with the ValueError 'No defined Grids found!'.
C16_LatestGridOrNoGridError ==
    /\ (Added /\ call.raised = "none" /\ NewSurveys # {}) =>
           /\ event.grid = pre.grids
           /\ \A s \in NewSurveys : db.surveys[s].grid = pre.grids
           /\ \A j \in Len(pre.mpointings) + 1..Len(db.mpointings) :
                  db.mpointings[j].grid_tile \in GridTilesOf(pre.grids)
    /\ (Undisturbed /\ event.type # "GW_RETRACTION"
         /\ (\A i \in DOMAIN MpointingKeys : HasKey(event.strategy, MpointingKeys[i]))
         /\ HasKey(event.strategy, "on_grid") /\ event.strategy.on_grid
         /\ pre.grids = 0) =>
           (call.raised = "ValueError" /\ db = pre)

\* several Grid rows exist; the Survey and the GridTiles of the Mpointings are
\* of the last one
C16_Witness ==
    /\ Added /\ call.raised = "none"
    /\ pre.grids > 1
    /\ Len(db.surveys) = Len(pre.surveys) + 1
    /\ db.surveys[Len(db.surveys)].grid = pre.grids
    /\ Len(db.mpointings) > Len(pre.mpointings)
    /\ db.mpointings[Len(db.mpointings)].grid_tile \notin GridTilesOf(1)
    /\ event.grid = pre.grids

\* C19: a strategy that lacks a key makes add_to_database fail with a
\* KeyError or a ValueError before any write: when the error is raised no row
\* has been added to the session, and none is committed.
C19_MalformedStrategyBeforeAnyWrite ==
    (Undisturbed /\ ~WellFormed(event.strategy)) =>
        /\ call.raised \in {"KeyError", "ValueError"}
        /\ db = pre
        /\ last_session = pre

----------------------------------------------------------------------------
(* Properties of get_grid_tiles *)

\* the tiles whose mean contour value is below 0.90 (two pixels a tile)
TilesInside(skymap) ==
    {t \in DOMAIN skymap : skymap[t].contours[1] + skymap[t].contours[2] < 180}

\* the tiles whose prob exceeds 0.90
TilesAbove(skymap) == {t \in DOMAIN skymap : skymap[t].prob > 90}

\* C10: get_grid_tiles returns, in descending order of prob, exactly the tiles
\* whose mean contour value is below 0.90 when there is one, and exactly the
\* tiles whose prob exceeds 0.90 when there is none.
C10_MaskedTable ==
    call.op = "get_grid_tiles" =>
        LET expected == IF TilesInside(event.skymap) # {}
                        THEN TilesInside(event.skymap)
                        ELSE TilesAbove(event.skymap)
            table == event.masked_table
        IN  /\ {table[i].tilename : i \in DOMAIN table} = expected
            /\ Len(table) = Cardinality(expected)
            /\ \A i \in DOMAIN table : table[i].prob = event.skymap[table[i].tilename].prob
            /\ \A i, j \in DOMAIN table : i < j => table[i].prob >= table[j].prob

\* no tile has a mean contour value below 0.90 and exactly one tile has a
\* prob above 0.90: the table is that tile
C10_Witness ==
    /\ call.op = "get_grid_tiles"
    /\ TilesInside(event.skymap) = {}
    /\ Cardinality(TilesAbove(event.skymap)) = 1
    /\ Len(event.masked_table) = 1
    /\ event.masked_table[1].tilename \in TilesAbove(event.skymap)

----------------------------------------------------------------------------
(* Properties of get_mpointing_info *)

\* C11: get_mpointing_info sets min_time to the sum over the exposure sets of
\* (exptime + 30) * num_exp, which is 220 for (num_exp 2, exptime 60),
\* (num_exp 1, exptime 10); it sets valid_time to -1 and too to true.
C11_MinTimeValidTimeToo ==
    call.op = "get_mpointing_info" =>
        LET sets == event.strategy.exposure_sets_dict
        IN  /\ call.raised = "none"
            /\ call.mp_data.min_time =
                   SumSeq([i \in DOMAIN sets |-> (sets[i].exptime + 30) * sets[i].num_exp])
            /\ (Len(sets) = 2
                /\ sets[1].num_exp = 2 /\ sets[1].exptime = 60
                /\ sets[2].num_exp = 1 /\ sets[2].exptime = 10)
                   => call.mp_data.min_time = 220
            /\ call.mp_data.valid_time = -1
            /\ call.mp_data.too = TRUE
            /\ Len(call.expsets) = Len(sets)

\* the exposure sets of the example, and the 220 seconds they need
C11_Witness ==
    /\ call.op = "get_mpointing_info"
    /\ Len(event.strategy.exposure_sets_dict) = 2
    /\ event.strategy.exposure_sets_dict[1].num_exp = 2
    /\ event.strategy.exposure_sets_dict[1].exptime = 60
    /\ event.strategy.exposure_sets_dict[2].num_exp = 1
    /\ event.strategy.exposure_sets_dict[2].exptime = 10
    /\ call.mp_data.min_time = 220
    /\ call.mp_data.valid_time = -1
    /\ call.mp_data.too

----------------------------------------------------------------------------
(* Properties of a caller that ingests one notice after another *)

Ingested == call.op = "ingest"

\* C20: when one caller ingests notices one after another, calling
\* remove_previous_events and then add_to_database for each, then after each
\* ingest every Mpointing that is scheduled or unscheduled and every Pointing
\* that is pending belongs to the Event ingested last for its name and
\* source; none is left for the name and source of an ingested GW_RETRACTION.
C20_ActiveRecordsOfLatestEvent ==
    /\ ActiveOnlyOfLatest(db)
    /\ (Ingested /\ call.raised = "none") =>
           /\ LatestEvent(db, event.name, event.source) = Len(db.events)
           /\ db.events[Len(db.events)].ivorn = event.ivorn
           /\ event.type = "GW_RETRACTION" =>
                  /\ ActiveMpointings(db, event.name, event.source) = {}
                  /\ PendingPointings(db, event.name, event.source) = {}

\* a plan with tiles was ingested, then a retraction of the same name: the
\* Mpointings and Pointings of the plan were active and are deleted
C20_Witness ==
    /\ Ingested /\ call.raised = "none" /\ event.type = "GW_RETRACTION"
    /\ Len(pre.surveys) > 0
    /\ \E j \in ActiveMpointings(pre, event.name, event.source) :
          /\ pre.mpointings[j].survey_tile > 0
          /\ db.mpointings[j].status = "deleted"
    /\ \E j \in PendingPointings(pre, event.name, event.source) :
          db.pointings[j].status = "deleted"
    /\ ActiveMpointings(db, event.name, event.source) = {}
    /\ Len(db.events) = Len(pre.events) + 1

----------------------------------------------------------------------------
(* Properties of repeated calls *)

\* C21: remove_previous_events is idempotent: called a second time with the
\* same event after it has returned without error, it returns without error
\* again and leaves the database as the first call left it; and neither
\* remove_previous_events nor add_to_database changes a record whose status
\* is 'deleted'.
C21_ReconcileIdempotentDeletedStays ==
    /\ call.op = "remove_previous_events_again" =>
           (call.raised = "none" /\ db = pre)
    /\ \A j \in DOMAIN pre.mpointings :
           pre.mpointings[j].status = "deleted" =>
               (j \in DOMAIN db.mpointings /\ db.mpointings[j] = pre.mpointings[j])
    /\ \A j \in DOMAIN pre.pointings :
           pre.pointings[j].status = "deleted" =>
               (j \in DOMAIN db.pointings /\ db.pointings[j] = pre.pointings[j])

\* the second call finds two previous Events of the name and source of the
\* event, with a deleted Mpointing, a deleted Pointing and a running Pointing,
\* no active record among theirs, and changes nothing
C21_Witness ==
    /\ call.op = "remove_previous_events_again" /\ call.raised = "none"
    /\ db = pre
    /\ \E i1, i2 \in DOMAIN db.events :
        /\ i1 # i2
        /\ SameEvent(db.events[i1], event) /\ SameEvent(db.events[i2], event)
        /\ \E j \in DOMAIN db.mpointings :
              db.mpointings[j].event = i1 /\ db.mpointings[j].status = "deleted"
        /\ \E j \in DOMAIN db.pointings :
              db.pointings[j].event = i1 /\ db.pointings[j].status = "deleted"
        /\ \E j \in DOMAIN db.pointings :
              db.pointings[j].event = i1 /\ db.pointings[j].status = "running"
    /\ ActiveMpointings(db, event.name, event.source) = {}
    /\ PendingPointings(db, event.name, event.source) = {}

----------------------------------------------------------------------------
(* Properties of concurrent callers *)

\* the Event rows with the ivorn of the notice
RowsOfNotice == {i \in DOMAIN db.events : db.events[i].ivorn = event.ivorn}

\* C18: callers that ingest the same notice can all pass the ivorn test of
\* remove_previous_events; the unique ivorn column then refuses the Event of
\* every caller but one: no two Event rows share an ivorn, at most one of
\* the callers that ran add_to_database has committed, and the others got
\* the IntegrityError of the database.
C18_UniqueColumnIsTheGuard ==
    /\ \A i, j \in DOMAIN db.events :
           db.events[i].ivorn = db.events[j].ivorn => i = j
    /\ \A c \in Callers :
           /\ callers[c].pc = "refused" =>
                  (callers[c].raised = "ValueError" /\ RowsOfNotice # {})
           /\ callers[c].pc = "done" =>
                  /\ callers[c].raised \in {"none", "IntegrityError"}
                  /\ Cardinality(RowsOfNotice) = 1
    /\ Cardinality({c \in Callers :
                       callers[c].pc = "done" /\ callers[c].raised = "none"}) <= 1

\* two callers have passed remove_previous_events without an error and have
\* run add_to_database: one has committed the Event, the other was refused
\* by the database
C18_Witness ==
    \E c1, c2 \in Callers :
        /\ callers[c1].pc = "done" /\ callers[c1].raised = "none"
        /\ callers[c2].pc = "done" /\ callers[c2].raised = "IntegrityError"
        /\ Cardinality(RowsOfNotice) = 1

====
